---- MODULE Spec2Model ----
(***************************************************************************)
(* Model of the Asteroid game: the arena simulation of gameboard.py (Rock, *)
(* Bullet, GameArena) and the timer/key driver of asteroids.py.            *)
(*                                                                         *)
(* Numbers.  Python floats are modelled in exact fixed point:              *)
(*   - a position coordinate is an integer count of 1/10000 units,         *)
(*   - a direction component is an integer count of 1/1000 (cos and sin    *)
(*     are tabulated to three decimals for multiples of 10 degrees),       *)
(*   - a speed is an integer count of 1/10 (Bullet 1 -> 10, Rock 0.1 -> 1) *)
(* so that direction * speed is a position increment without rounding.     *)
(* Lists are sequences; a Python index i is the sequence index i + 1.      *)
(***************************************************************************)
EXTENDS Integers, Sequences, FiniteSets, TLC

VARIABLES
    bullets,            \* GameArena.bullets: sequence of Bullet objects
    rocks,              \* GameArena.rocks: sequence of Rock objects
    gameboard_width,    \* GameArena.gameboard_width
    gameboard_height,   \* GameArena.gameboard_height
    err,                \* "none", or the exception an operation raised
    op,                 \* the operation that ran last, its inputs and result
    has_gameboard,      \* Asteroids: the attributes start_game sets exist
    game_running,       \* Asteroids.game_running
    rotation_angle,     \* Asteroids.rotation_angle (degrees)
    timer,              \* Asteroids.timer: "none" | "active" | "stopped"
    create_rock_timer,  \* Asteroids.create_rock_timer, likewise
    start_button,       \* Asteroids.start_button is shown
    sched               \* scheduling steps taken since the session started or ended

arena  == <<bullets, rocks, gameboard_width, gameboard_height>>
driver == <<has_gameboard, game_running, rotation_angle, timer,
            create_rock_timer, start_button, sched>>
driver_but_sched == <<has_gameboard, game_running, rotation_angle, timer,
                      create_rock_timer, start_button>>
vars   == <<bullets, rocks, gameboard_width, gameboard_height, err, op,
            has_gameboard, game_running, rotation_angle, timer,
            create_rock_timer, start_button, sched>>

(***************************************************************************)
(* Fixed-point arithmetic                                                  *)
(***************************************************************************)
\* position counts per distance unit (1/10000)
Unit == 100 * 100

Abs(x) == IF x < 0 THEN -x ELSE x

\* sin of 0, 10, ..., 90 degrees, in thousandths
SinTable == <<0, 174, 342, 500, 643, 766, 866, 940, 985, 1000>>

\* math.sin of an angle of deg degrees (deg a multiple of 10), in thousandths
Sin1000(deg) ==
    LET a == deg % 360
    IN  IF a <= 90 THEN SinTable[(a \div 10) + 1]
        ELSE IF a <= 180 THEN SinTable[((180 - a) \div 10) + 1]
        ELSE IF a <= 270 THEN -SinTable[((a - 180) \div 10) + 1]
        ELSE -SinTable[((360 - a) \div 10) + 1]

\* math.cos of an angle of deg degrees, in thousandths
Cos1000(deg) == Sin1000(deg + 90)

\* x**2 + y**2 of a coordinate pair, as <<hi, lo>> with value
\* hi * Unit^2 + lo and 0 <= lo < Unit^2 (two limbs keep it in 32 bits)
SumSq(p) ==
    LET a   == Abs(p[1]) \div Unit
        b   == Abs(p[1]) % Unit
        c   == Abs(p[2]) \div Unit
        d   == Abs(p[2]) % Unit
        mid == 2 * (a * b + c * d)
        low == (mid % Unit) * Unit + (b * b + d * d)
    IN  <<a * a + c * c + (mid \div Unit) + (low \div (Unit * Unit)),
          low % (Unit * Unit)>>

\* math.sqrt(x**2 + y**2) < t, for a whole number t of distance units
NormLess(p, t) == SumSq(p)[1] < t * t

\* math.sqrt(x**2 + y**2) > t
NormGreater(p, t) ==
    \/ SumSq(p)[1] > t * t
    \/ SumSq(p)[1] = t * t /\ SumSq(p)[2] > 0

(***************************************************************************)
(* Rock and Bullet                                                         *)
(***************************************************************************)
\* Rock.speed = 0.1, in tenths
RockSpeed == 1

\* Bullet.speed = 1, in tenths
BulletSpeed == 10

\* Rock.__init__(direction, pos)
Rock(direction, pos) ==
    [speed |-> RockSpeed, pos |-> pos, direction |-> direction]

\* Bullet.__init__(direction): pos defaults to a fresh [0, 0]
Bullet(direction) ==
    [speed |-> BulletSpeed, pos |-> <<0, 0>>, direction |-> direction]

\* a faulty variant of update_pos: the sums are computed but not stored
update_pos_not_stored(e) == e.pos

\* a faulty variant of update_pos: the second line a copy of the first with
\* only the left-hand index changed
update_pos_first_component_twice(e) ==
    <<e.pos[1] + e.direction[1] * e.speed, e.pos[2] + e.direction[1] * e.speed>>

\* the new pos after update_pos: pos += direction * speed, per component
update_pos(e) ==
    <<e.pos[1] + e.direction[1] * e.speed, e.pos[2] + e.direction[2] * e.speed>>

\* the kill radius of check_kill
KillThreshold == 20

\* a faulty variant of distance_to_rock_lt: <= 20 for < 20
distance_to_rock_le(b, rock_position) ==
    LET d == SumSq(<<b.pos[1] - rock_position[1], b.pos[2] - rock_position[2]>>)
    IN  d[1] < KillThreshold * KillThreshold
        \/ d = <<KillThreshold * KillThreshold, 0>>

\* bullet.distance_to_rock(rock_position) < 20, as check_kill tests it
distance_to_rock_lt(b, rock_position) ==
    NormLess(<<b.pos[1] - rock_position[1], b.pos[2] - rock_position[2]>>,
             KillThreshold)

(***************************************************************************)
(* Python list operations                                                  *)
(***************************************************************************)
\* list.pop(i) for 0 <= i < len: the list without the element at Python
\* index i (sequence index i + 1)
Pop(s, i) ==
    [k \in 1..(Len(s) - 1) |-> IF k <= i THEN s[k] ELSE s[k + 1]]

(***************************************************************************)
(* GameArena                                                               *)
(***************************************************************************)
\* a faulty variant of shoot: the quarter turn (- pi/2) left out
shoot_no_quarter_turn(bs, angle) ==
    Append(bs, Bullet(<<Cos1000(angle), Sin1000(angle)>>))

\* GameArena.shoot(angle): the bullet list after the call
shoot(bs, angle) ==
    LET direction == <<Cos1000(angle - 90), Sin1000(angle - 90)>>
    IN  Append(bs, Bullet(direction))

\* a faulty variant of initial_xy: the bottom edge measures its offset from
\* the start of the right edge instead of from its own start
initial_xy_bottom_from_right(width, height, initial_pos) ==
    IF initial_pos < width
       THEN <<initial_pos * Unit, 0>>
    ELSE IF initial_pos < height + width
       THEN <<width * Unit, (initial_pos - width) * Unit>>
    ELSE IF initial_pos < 2 * width + height
       THEN <<(initial_pos - width) * Unit, height * Unit>>
    ELSE <<0, (initial_pos - (2 * width + height)) * Unit>>

\* rock_attack, the four branches on initial_pos: <<initial_x, initial_y>>
\* in the frame whose origin is the rectangle's top-left corner
initial_xy(width, height, initial_pos) ==
    IF initial_pos < width
       THEN <<initial_pos * Unit, 0>>
    ELSE IF initial_pos < height + width
       THEN <<width * Unit, (initial_pos - width) * Unit>>
    ELSE IF initial_pos < 2 * width + height
       THEN <<(initial_pos - (height + width)) * Unit, height * Unit>>
    ELSE <<0, (initial_pos - (2 * width + height)) * Unit>>

\* a faulty variant of spawn_direction: the right edge takes abs(cos) for -abs(cos)
\* and the left edge takes -abs(cos) for abs(cos)
spawn_direction_sides_swapped(width, height, initial_pos, angle) ==
    LET c == Cos1000(angle)
        s == Sin1000(angle)
    IN  IF initial_pos < width THEN <<c, Abs(s)>>
        ELSE IF initial_pos < height + width THEN <<Abs(c), Abs(s)>>
        ELSE IF initial_pos < 2 * width + height THEN <<c, -Abs(s)>>
        ELSE <<-Abs(c), s>>

\* rock_attack, the four branches on initial_pos: direction, from angle
\* (random.uniform(0, 2*pi), here in degrees)
spawn_direction(width, height, initial_pos, angle) ==
    LET c == Cos1000(angle)
        s == Sin1000(angle)
    IN  IF initial_pos < width THEN <<c, Abs(s)>>
        ELSE IF initial_pos < height + width THEN <<-Abs(c), Abs(s)>>
        ELSE IF initial_pos < 2 * width + height THEN <<c, -Abs(s)>>
        ELSE <<Abs(c), s>>

\* a faulty variant of centred: the two half-extents exchanged
centred_swapped(width, height, xy) ==
    <<xy[1] - (height * Unit) \div 2, xy[2] - (width * Unit) \div 2>>

\* rock_attack: initial_x -= width/2; initial_y -= height/2
centred(width, height, xy) ==
    <<xy[1] - (width * Unit) \div 2, xy[2] - (height * Unit) \div 2>>

\* GameArena.rock_attack: the Rock built from the two random draws
new_rock(width, height, initial_pos, angle) ==
    Rock(spawn_direction(width, height, initial_pos, angle),
         centred(width, height, initial_xy(width, height, initial_pos)))

\* GameArena.rock_attack(): the rock list after the call
rock_attack(rs, width, height, initial_pos, angle) ==
    Append(rs, new_rock(width, height, initial_pos, angle))

\* the death radius of check_death
DeathThreshold == 30

\* GameArena.check_death(): for rock in rocks: if dist < 30: return True;
\* else (of the for): return False
RECURSIVE check_death_from(_, _)
check_death_from(rs, k) ==
    IF k > Len(rs) THEN FALSE
    ELSE IF NormLess(rs[k].pos, DeathThreshold) THEN TRUE
    ELSE check_death_from(rs, k + 1)

\* a faulty variant of check_death: if/else for for/else, so that only the first
\* rock decides
check_death_first_rock(rs) ==
    rs # <<>> /\ NormLess(rs[1].pos, DeathThreshold)

check_death(rs) == check_death_from(rs, 1)

\* a faulty variant of check_death_effect: the rock that decides the verdict
\* is taken out of the list
check_death_removing(B, R) ==
    [bullets |-> B,
     rocks   |-> IF check_death(R)
                 THEN LET k == CHOOSE k \in DOMAIN R :
                                   /\ NormLess(R[k].pos, DeathThreshold)
                                   /\ \A l \in 1..(k - 1) :
                                         ~NormLess(R[l].pos, DeathThreshold)
                      IN  Pop(R, k - 1)
                 ELSE R]

\* GameArena.check_death(): the two lists after the call; the loop only
\* reads rock.pos, nothing is assigned, appended or popped
check_death_effect(B, R) == [bullets |-> B, rocks |-> R]

\* The inner loop of check_kill for the bullet at index i of the outer
\* snapshot: snap is list(enumerate(self.rocks)) taken when the loop starts,
\* visited from its last index j down.  B and R are the objects of the two
\* lists when check_kill began (positions do not change during the pass);
\* st.bl and st.rl are self.bullets and self.rocks as sequences of indices
\* into B and R.  There is no break after the two pops.
RECURSIVE kill_inner(_, _, _, _, _, _)
kill_inner(B, R, st, i, snap, j) ==
    IF j = 0 \/ st.err # "none" THEN st
    ELSE
      LET seen == [st EXCEPT !.log = Append(@, [kind |-> "cmp", b |-> i, r |-> snap[j]])]
      IN  IF distance_to_rock_lt(B[i], R[snap[j]].pos)
          THEN IF i > Len(st.bl)
               THEN \* self.bullets.pop(i) raises IndexError
                    [seen EXCEPT !.err = "IndexError"]
               ELSE IF j > Len(st.rl)
               THEN \* self.rocks.pop(j) raises IndexError
                    [seen EXCEPT !.bl = Pop(@, i - 1), !.err = "IndexError"]
               ELSE kill_inner(B, R,
                        [seen EXCEPT !.bl = Pop(@, i - 1),
                                     !.rl = Pop(@, j - 1),
                                     !.log = Append(@, [kind |-> "pop",
                                                        b |-> st.bl[i],
                                                        r |-> st.rl[j]])],
                        i, snap, j - 1)
          ELSE kill_inner(B, R, seen, i, snap, j - 1)

\* The outer loop of check_kill over reversed(list(enumerate(self.bullets)))
RECURSIVE kill_outer(_, _, _, _)
kill_outer(B, R, st, i) ==
    IF i = 0 \/ st.err # "none" THEN st
    ELSE kill_outer(B, R, kill_inner(B, R, st, i, st.rl, Len(st.rl)), i - 1)

\* GameArena.check_kill(): the two lists it leaves, the exception it raised
\* if any, and the comparisons and removals it made, in order
check_kill(B, R) ==
    LET st == kill_outer(B, R,
                  [bl |-> [k \in 1..Len(B) |-> k],
                   rl |-> [k \in 1..Len(R) |-> k],
                   err |-> "none", log |-> <<>>],
                  Len(B))
    IN  [bullets |-> [k \in 1..Len(st.bl) |-> B[st.bl[k]]],
         rocks   |-> [k \in 1..Len(st.rl) |-> R[st.rl[k]]],
         err     |-> st.err,
         log     |-> st.log]

\* One of the two loops of update_gameboard over
\* reversed(list(enumerate(lst))): pop(i) when calculate_distance() > limit,
\* else update_pos().  st.objs are the snapshot's objects, st.live is the
\* list as a sequence of indices into the snapshot.
RECURSIVE cull_loop(_, _, _)
cull_loop(limit, st, i) ==
    IF i = 0 \/ st.err # "none" THEN st
    ELSE IF NormGreater(st.objs[i].pos, limit)
    THEN IF i > Len(st.live)
         THEN [st EXCEPT !.err = "IndexError"]
         ELSE cull_loop(limit, [st EXCEPT !.live = Pop(@, i - 1)], i - 1)
    ELSE cull_loop(limit,
                   [st EXCEPT !.objs[i].pos = update_pos(st.objs[i])],
                   i - 1)

cull(es, limit) ==
    LET st == cull_loop(limit,
                  [live |-> [k \in 1..Len(es) |-> k], objs |-> es,
                   err |-> "none"],
                  Len(es))
    IN  [list |-> [k \in 1..Len(st.live) |-> st.objs[st.live[k]]],
         err  |-> st.err]

\* a faulty variant of update_bullets: the rock loop's limit
update_bullets_rock_limit(bs, width) == cull(bs, 2 * width)

\* update_gameboard, the bullet loop: limit is gameboard_width
update_bullets(bs, width) == cull(bs, width)

\* a faulty variant of update_rocks: the bullet loop's limit
update_rocks_bullet_limit(rs, width) == cull(rs, width)

\* update_gameboard, the rock loop: limit is 2*gameboard_width
update_rocks(rs, width) == cull(rs, 2 * width)

\* GameArena.update_gameboard(): check_kill, then the two loops; an
\* exception leaves the lists as they were when it was raised
update_gameboard(B, R, width) ==
    LET ck == check_kill(B, R)
        ub == update_bullets(ck.bullets, width)
        ur == update_rocks(ck.rocks, width)
    IN  IF ck.err # "none"
        THEN [bullets |-> ck.bullets, rocks |-> ck.rocks, err |-> ck.err]
        ELSE IF ub.err # "none"
        THEN [bullets |-> ub.list, rocks |-> ck.rocks, err |-> ub.err]
        ELSE [bullets |-> ub.list, rocks |-> ur.list, err |-> ur.err]

(***************************************************************************)
(* The arena as a library: any sequence of its operations                  *)
(***************************************************************************)
\* most bullets, and most rocks, an arena of the model holds at once
MaxEntities == 2

\* the arenas constructed: <<width, height>>
ArenaDims == {<<2, 60>>, <<3, 44>>}

\* the angles (degrees) shoot is called with
ShootAngles == {0, 90}

\* the values of random.randrange(2*(height+width)) taken in rock_attack:
\* the second point of the top edge, the right edge at y = -20, and the
\* right edge at y = 2*width - 1 (just inside the rock cull radius)
RockDraws(width, height) ==
    {1,
     width + (height \div 2) - 20,
     width + (height \div 2) + 2 * width - 1}

\* the values of random.uniform(0, 2*pi) taken in rock_attack, in degrees
RockAngles == {90}

\* the record kept of the last operation
Op(name, ret, angle, draw, killed, culled_b, culled_r) ==
    [name |-> name, ret |-> ret, angle |-> angle, draw |-> draw,
     killed |-> killed, culled_b |-> culled_b, culled_r |-> culled_r]

\* GameArena.__init__(width, height); no Asteroids window is involved
Init ==
    /\ \E d \in ArenaDims :
          /\ gameboard_width = d[1]
          /\ gameboard_height = d[2]
    /\ bullets = <<>>
    /\ rocks = <<>>
    /\ err = "none"
    /\ op = Op("init", FALSE, 0, 0, 0, 0, 0)
    /\ has_gameboard = TRUE
    /\ game_running = FALSE
    /\ rotation_angle = 0
    /\ timer = "none"
    /\ create_rock_timer = "none"
    /\ start_button = FALSE
    /\ sched = 0

\* a call of shoot(angle)
Shoot(angle) ==
    /\ err = "none"
    /\ Len(bullets) < MaxEntities
    /\ bullets' = shoot(bullets, angle)
    /\ op' = Op("shoot", FALSE, angle, 0, 0, 0, 0)
    /\ UNCHANGED <<rocks, gameboard_width, gameboard_height, err, driver>>

\* a call of rock_attack() whose random draws are initial_pos and angle
RockAttack(initial_pos, angle) ==
    /\ err = "none"
    /\ Len(rocks) < MaxEntities
    /\ initial_pos \in 0..(2 * (gameboard_height + gameboard_width) - 1)
    /\ rocks' = rock_attack(rocks, gameboard_width, gameboard_height,
                            initial_pos, angle)
    /\ op' = Op("rock_attack", FALSE, angle, initial_pos, 0, 0, 0)
    /\ UNCHANGED <<bullets, gameboard_width, gameboard_height, err, driver>>

\* a call of check_death()
CheckDeath ==
    /\ err = "none"
    /\ op' = Op("check_death", check_death(rocks), 0, 0, 0, 0, 0)
    /\ bullets' = check_death_effect(bullets, rocks).bullets
    /\ rocks' = check_death_effect(bullets, rocks).rocks
    /\ UNCHANGED <<gameboard_width, gameboard_height, err, driver>>

\* a call of check_kill()
CheckKill ==
    /\ err = "none"
    /\ LET ck == check_kill(bullets, rocks)
       IN  /\ bullets' = ck.bullets
           /\ rocks' = ck.rocks
           /\ err' = ck.err
           /\ op' = Op("check_kill", FALSE, 0, 0,
                       Len(bullets) - Len(ck.bullets), 0, 0)
    /\ UNCHANGED <<gameboard_width, gameboard_height, driver>>

\* a call of update_gameboard()
UpdateGameboard ==
    /\ err = "none"
    /\ LET ck == check_kill(bullets, rocks)
           ug == update_gameboard(bullets, rocks, gameboard_width)
       IN  /\ bullets' = ug.bullets
           /\ rocks' = ug.rocks
           /\ err' = ug.err
           /\ op' = Op("update_gameboard", FALSE, 0, 0,
                       Len(bullets) - Len(ck.bullets),
                       Len(ck.bullets) - Len(ug.bullets),
                       Len(ck.rocks) - Len(ug.rocks))
    /\ UNCHANGED <<gameboard_width, gameboard_height, driver>>

Next ==
    \/ \E angle \in ShootAngles : Shoot(angle)
    \/ \E initial_pos \in RockDraws(gameboard_width, gameboard_height),
          angle \in RockAngles :
          RockAttack(initial_pos, angle)
    \/ CheckDeath
    \/ CheckKill
    \/ UpdateGameboard

Spec == Init /\ [][Next]_vars

\* update_gameboard() would change the state: ENABLED <<UpdateGameboard>>_vars
\* written out
UpdateGameboardEnabled ==
    /\ err = "none"
    /\ LET ck == check_kill(bullets, rocks)
           ug == update_gameboard(bullets, rocks, gameboard_width)
       IN  \/ bullets # ug.bullets
           \/ rocks # ug.rocks
           \/ err # ug.err
           \/ op # Op("update_gameboard", FALSE, 0, 0,
                       Len(bullets) - Len(ck.bullets),
                       Len(ck.bullets) - Len(ug.bullets),
                       Len(ck.rocks) - Len(ug.rocks))

\* The arena whose update_gameboard keeps being called (the driver's tick
\* timer): weak fairness of UpdateGameboard, that is
\* WF_vars(UpdateGameboard) with its ENABLED written out as above.
UpdateGameboardFair ==
    []<>(~UpdateGameboardEnabled) \/ []<><<UpdateGameboard>>_vars

LiveSpec == Init /\ [][Next]_vars /\ UpdateGameboardFair

(***************************************************************************)
(* rock_attack on its own: every draw and every tabulated angle            *)
(***************************************************************************)
\* the arenas rock_attack is tried on: <<width, height>>
SpawnDims == {<<2, 60>>, <<3, 44>>, <<7, 5>>, <<1, 1>>, <<10, 6>>}

\* every angle of the sine table, in degrees
TableAngles == {10 * k : k \in 0..35}

SpawnInit ==
    /\ \E d \in SpawnDims :
          /\ gameboard_width = d[1]
          /\ gameboard_height = d[2]
    /\ bullets = <<>>
    /\ rocks = <<>>
    /\ err = "none"
    /\ op = Op("init", FALSE, 0, 0, 0, 0, 0)
    /\ has_gameboard = TRUE
    /\ game_running = FALSE
    /\ rotation_angle = 0
    /\ timer = "none"
    /\ create_rock_timer = "none"
    /\ start_button = FALSE
    /\ sched = 0

\* the first rock_attack() on a new arena
FirstRockAttack ==
    /\ rocks = <<>>
    /\ \E initial_pos \in 0..(2 * (gameboard_height + gameboard_width) - 1),
          angle \in TableAngles :
          RockAttack(initial_pos, angle)

\* shoot() calls before and after it, so that the arena rock_attack is
\* called on holds bullets
SpawnNext ==
    \/ FirstRockAttack
    \/ \E angle \in ShootAngles : Shoot(angle)

SpawnSpec == SpawnInit /\ [][SpawnNext]_vars

(***************************************************************************)
(* GameArena(width, height) on any integers, and rock_attack on the result *)
(***************************************************************************)
\* the values the constructor is called with, non-positive ones included
CtorArgs == -1..2

\* GameArena.__init__(width, height): the arguments are stored as they come
CtorInit ==
    /\ \E width \in CtorArgs, height \in CtorArgs :
          /\ gameboard_width = width
          /\ gameboard_height = height
    /\ bullets = <<>>
    /\ rocks = <<>>
    /\ err = "none"
    /\ op = Op("init", FALSE, 0, 0, 0, 0, 0)
    /\ has_gameboard = TRUE
    /\ game_running = FALSE
    /\ rotation_angle = 0
    /\ timer = "none"
    /\ create_rock_timer = "none"
    /\ start_button = FALSE
    /\ sched = 0

\* rock_attack() where random.randrange(2*(height+width)) has a draw to give
CtorRockAttack ==
    \E initial_pos \in 0..(2 * (gameboard_height + gameboard_width) - 1),
       angle \in RockAngles :
       RockAttack(initial_pos, angle)

\* rock_attack() where 2*(height+width) <= 0: random.randrange raises
\* ValueError (empty range)
RockAttackEmptyRange ==
    /\ err = "none"
    /\ 2 * (gameboard_height + gameboard_width) <= 0
    /\ err' = "ValueError"
    /\ op' = Op("rock_attack", FALSE, 0, 0, 0, 0, 0)
    /\ UNCHANGED <<arena, driver>>

CtorNext ==
    \/ CtorRockAttack
    \/ RockAttackEmptyRange

CtorSpec == CtorInit /\ [][CtorNext]_vars

(***************************************************************************)
(* Asteroids: the window that drives the arena                             *)
(***************************************************************************)
\* Asteroids.frame_height, frame_width
frame_height == 600
frame_width == 1000

\* keyPressEvent: turn
turn == 10

\* The scheduling steps (timer ticks, rock timer firings, key presses) of a
\* session, and of the time after its end, that are taken in any order;
\* after them only the tick timer fires.
MaxSched == 3

\* the draws of rock_attack taken under the driver: the middle of the top edge
DriverDraws == {frame_width \div 2}

\* Asteroids.__init__: nothing of start_game exists yet
DriverInit ==
    /\ has_gameboard = FALSE
    /\ game_running = FALSE
    /\ rotation_angle = 0
    /\ timer = "none"
    /\ create_rock_timer = "none"
    /\ start_button = TRUE
    /\ sched = 0
    /\ bullets = <<>>
    /\ rocks = <<>>
    /\ gameboard_width = 0
    /\ gameboard_height = 0
    /\ err = "none"
    /\ op = Op("init", FALSE, 0, 0, 0, 0, 0)

\* start_game(): the start button was clicked
StartGame ==
    /\ err = "none"
    /\ start_button
    /\ start_button' = FALSE
    /\ rotation_angle' = 0
    /\ has_gameboard' = TRUE
    /\ bullets' = <<>>
    /\ rocks' = <<>>
    /\ gameboard_width' = frame_width
    /\ gameboard_height' = frame_height
    /\ game_running' = TRUE
    /\ timer' = "active"
    /\ create_rock_timer' = "active"
    /\ sched' = 0
    /\ op' = Op("start_game", FALSE, 0, 0, 0, 0, 0)
    /\ UNCHANGED err

\* a faulty variant of end_game: create_rock_timer.stop() left out
end_game_rock_timer_left ==
    [start_button |-> TRUE, timer |-> "stopped", create_rock_timer |-> "active"]

\* end_game(): what it sets
end_game ==
    [start_button |-> TRUE, timer |-> "stopped", create_rock_timer |-> "stopped"]

\* update_game(): the tick timer fired
UpdateGame ==
    /\ err = "none"
    /\ timer = "active"
    /\ LET dead == check_death(rocks)
           ck == check_kill(bullets, rocks)
           ug == update_gameboard(bullets, rocks, gameboard_width)
       IN  /\ game_running' = IF dead THEN FALSE ELSE game_running
           /\ start_button' = IF dead THEN end_game.start_button ELSE start_button
           /\ timer' = IF dead THEN end_game.timer ELSE timer
           /\ create_rock_timer' =
                 IF dead THEN end_game.create_rock_timer ELSE create_rock_timer
           /\ sched' = IF dead THEN 0
                       ELSE IF sched < MaxSched THEN sched + 1 ELSE sched
           /\ bullets' = ug.bullets
           /\ rocks' = ug.rocks
           /\ err' = ug.err
           /\ op' = Op("update_game", dead, 0, 0,
                       Len(bullets) - Len(ck.bullets),
                       Len(ck.bullets) - Len(ug.bullets),
                       Len(ck.rocks) - Len(ug.rocks))
    /\ UNCHANGED <<gameboard_width, gameboard_height, has_gameboard,
                   rotation_angle>>

\* Asteroids.rock_attack(): the rock timer fired
RockTimer(initial_pos, angle) ==
    /\ err = "none"
    /\ create_rock_timer = "active"
    /\ sched < MaxSched
    /\ sched' = sched + 1
    /\ rocks' = rock_attack(rocks, gameboard_width, gameboard_height,
                            initial_pos, angle)
    /\ op' = Op("rock_attack", FALSE, angle, initial_pos, 0, 0, 0)
    /\ UNCHANGED <<bullets, gameboard_width, gameboard_height, err,
                   has_gameboard, game_running, rotation_angle, timer,
                   create_rock_timer, start_button>>

\* keyPressEvent with Qt.Key_Left (d = -1) or Qt.Key_Right (d = 1)
KeyTurn(d) ==
    /\ err = "none"
    /\ sched < MaxSched
    /\ sched' = sched + 1
    /\ op' = Op(IF d < 0 THEN "key_left" ELSE "key_right", FALSE, 0, 0, 0, 0, 0)
    /\ IF has_gameboard
       THEN /\ rotation_angle' = rotation_angle + d * turn
            /\ UNCHANGED err
       ELSE \* self.rotation_angle does not exist before start_game
            /\ err' = "AttributeError"
            /\ UNCHANGED rotation_angle
    /\ UNCHANGED <<arena, has_gameboard, game_running, timer,
                   create_rock_timer, start_button>>

\* keyPressEvent with Qt.Key_Space
KeySpace ==
    /\ err = "none"
    /\ sched < MaxSched
    /\ sched' = sched + 1
    /\ op' = Op("key_space", FALSE, rotation_angle, 0, 0, 0, 0)
    /\ IF has_gameboard
       THEN /\ bullets' = shoot(bullets, rotation_angle)
            /\ UNCHANGED err
       ELSE \* self.gameboard does not exist before start_game
            /\ err' = "AttributeError"
            /\ UNCHANGED bullets
    /\ UNCHANGED <<rocks, gameboard_width, gameboard_height, driver_but_sched>>

DriverNext ==
    \/ StartGame
    \/ UpdateGame
    \/ \E initial_pos \in DriverDraws, angle \in RockAngles :
          RockTimer(initial_pos, angle)
    \/ KeyTurn(-1)
    \/ KeyTurn(1)
    \/ KeySpace

DriverSpec == DriverInit /\ [][DriverNext]_vars

(***************************************************************************)
(* Properties                                                              *)
(***************************************************************************)
\* the step was a check_kill pass (on its own or as the first step of
\* update_gameboard)
KillPassStep == op'.name \in {"check_kill", "update_gameboard"}

\* C1: in one check_kill pass, once a projectile/obstacle pair has been
\* removed, neither the removed projectile nor the removed obstacle takes
\* part in a later comparison or removal of that pass (so one projectile
\* destroys at most one obstacle, and one obstacle is destroyed by at most
\* one projectile).
C1_OnePairPerPass ==
    [][KillPassStep =>
          LET log == check_kill(bullets, rocks).log
          IN  \A n \in DOMAIN log : \A m \in DOMAIN log :
                 (log[n].kind = "pop" /\ m > n) =>
                     /\ log[m].b # log[n].b
                     /\ log[m].r # log[n].r]_vars

\* C2: no call of shoot, rock_attack, check_death or update_gameboard (its
\* check_kill step included) raises an error.
C2_NoOperationRaises ==
    op.name \in {"shoot", "rock_attack", "check_death", "update_gameboard"} =>
        err = "none"

\* the squared distance between two positions, as SumSq gives it
SqDistance(p, q) == SumSq(<<p[1] - q[1], p[2] - q[2]>>)

\* C3: with exactly one projectile and one obstacle, check_kill removes both
\* when their distance is strictly below 20, and removes neither (both lists
\* unchanged) when it is exactly 20 or more.
C3_StrictKillThreshold ==
    [][(op'.name = "check_kill" /\ Len(bullets) = 1 /\ Len(rocks) = 1) =>
          IF SqDistance(bullets[1].pos, rocks[1].pos)[1] < 20 * 20
          THEN bullets' = <<>> /\ rocks' = <<>> /\ err' = "none"
          ELSE bullets' = bullets /\ rocks' = rocks /\ err' = "none"]_vars

\* C3 witness: check_kill ran on one projectile and one obstacle exactly 20
\* apart and removed neither
C3_Witness ==
    /\ op.name = "check_kill"
    /\ Len(bullets) = 1
    /\ Len(rocks) = 1
    /\ SqDistance(bullets[1].pos, rocks[1].pos) = <<20 * 20, 0>>

\* some obstacle is strictly less than 30 from the origin
SomeRockNearOrigin(rs) ==
    \E k \in DOMAIN rs : SumSq(rs[k].pos)[1] < 30 * 30

\* C4: check_death returns true iff at least one obstacle, at whatever index,
\* is strictly less than 30 from the origin (false on an empty collection).
C4_DeathIffSomeRockNear ==
    [][op'.name = "check_death" =>
          /\ op'.ret = SomeRockNearOrigin(rocks)
          /\ (rocks = <<>> => op'.ret = FALSE)]_vars

\* C4 witness: check_death returned true for a rock at the second index while
\* the first rock is exactly 30 from the origin
C4_Witness ==
    /\ op.name = "check_death"
    /\ op.ret
    /\ Len(rocks) = 2
    /\ SumSq(rocks[1].pos) = <<30 * 30, 0>>
    /\ SumSq(rocks[2].pos)[1] < 30 * 30

\* C5: every tick checks death on the arena the previous tick left (before
\* update_gameboard runs); when an obstacle is within 30 of the origin at
\* that check the game ends in that tick (game_running false, both timers
\* stopped), and a tick or a spawn happens only while its timer is active.
C5_DeathEndsGame ==
    [][/\ op'.name = "update_game" =>
             /\ timer = "active"
             /\ op'.ret = SomeRockNearOrigin(rocks)
             /\ SomeRockNearOrigin(rocks) =>
                   /\ game_running' = FALSE
                   /\ timer' = "stopped"
                   /\ create_rock_timer' = "stopped"
             /\ ~SomeRockNearOrigin(rocks) =>
                   /\ game_running' = game_running
                   /\ timer' = timer
                   /\ create_rock_timer' = create_rock_timer
       /\ op'.name = "rock_attack" => create_rock_timer = "active"
       /\ (timer = "stopped" /\ op'.name # "start_game") =>
             /\ timer' = "stopped"
             /\ create_rock_timer' = "stopped"
             /\ rocks' = rocks]_vars

\* C5 witness: a tick found a rock within 30 of the origin and ended the game
C5_Witness ==
    /\ op.name = "update_game"
    /\ op.ret
    /\ ~game_running
    /\ timer = "stopped"
    /\ create_rock_timer = "stopped"
    /\ rocks # <<>>

\* the entities of es that are at most limit from the origin, in order, each
\* moved by direction * speed once
KeptAndAdvanced(es, limit) ==
    LET Near(e) == \/ SumSq(e.pos)[1] < limit * limit
                   \/ SumSq(e.pos) = <<limit * limit, 0>>
        kept == SelectSeq(es, Near)
    IN  [k \in 1..Len(kept) |->
            [kept[k] EXCEPT !.pos = <<kept[k].pos[1] + kept[k].direction[1] * kept[k].speed,
                                      kept[k].pos[2] + kept[k].direction[2] * kept[k].speed>>]]

\* C6: in update_gameboard, once collision resolution has run, every
\* remaining projectile farther than width from the origin is removed
\* without being advanced and every other one stays, in order, advanced
\* exactly once.
C6_BulletsCulledOrAdvanced ==
    [][(op'.name = "update_gameboard" /\ check_kill(bullets, rocks).err = "none") =>
          /\ err' = "none"
          /\ bullets' = KeptAndAdvanced(check_kill(bullets, rocks).bullets,
                                        gameboard_width)]_vars

\* C6 witness: update_gameboard removed a far projectile and advanced another
C6_Witness ==
    /\ op.name = "update_gameboard"
    /\ err = "none"
    /\ op.culled_b >= 1
    /\ Len(bullets) >= 1

\* C7: in update_gameboard, after collision resolution and the projectile
\* loop, every remaining obstacle farther than 2*width from the origin is
\* removed without being advanced and every other one stays, in order,
\* advanced exactly once.
C7_RocksCulledOrAdvanced ==
    [][(op'.name = "update_gameboard" /\ check_kill(bullets, rocks).err = "none") =>
          /\ err' = "none"
          /\ rocks' = KeptAndAdvanced(check_kill(bullets, rocks).rocks,
                                      2 * gameboard_width)]_vars

\* C7 witness: update_gameboard removed a far obstacle and advanced another
C7_Witness ==
    /\ op.name = "update_gameboard"
    /\ err = "none"
    /\ op.culled_r >= 1
    /\ Len(rocks) >= 1

\* C8: shoot(angle) appends exactly one projectile at the end, at the origin,
\* with speed 1 and direction (cos(angle - 90 deg), sin(angle - 90 deg)) =
\* (sin angle, -cos angle), which is (0, -1) for angle 0; the projectiles
\* already there, the obstacles, width and height are unchanged.
C8_ShootAppendsOne ==
    [][op'.name = "shoot" =>
          LET a == op'.angle
              new == [speed |-> 10, pos |-> <<0, 0>>,
                      direction |-> <<Sin1000(a), -Sin1000(a + 90)>>]
          IN  /\ bullets' = Append(bullets, new)
              /\ (a = 0 => bullets'[Len(bullets')].direction = <<0, -1000>>)
              /\ (a = 90 => bullets'[Len(bullets')].direction = <<1000, 0>>)
              /\ rocks' = rocks
              /\ gameboard_width' = gameboard_width
              /\ gameboard_height' = gameboard_height]_vars

\* C8 witness: shoot(0) on an arena that already held a projectile and an
\* obstacle
C8_Witness ==
    /\ op.name = "shoot"
    /\ op.angle = 0
    /\ Len(bullets) = 2
    /\ rocks # <<>>
    /\ bullets[2].pos = <<0, 0>>
    /\ bullets[2].direction = <<0, -1000>>
    /\ bullets[1].pos # <<0, 0>>

\* the rock rock_attack just appended
NewRock == rocks[Len(rocks)]

\* C9: a rock created by rock_attack lies on the perimeter of the re-centred
\* width x height rectangle, hence at least min(width, height)/2 from the
\* origin.
C9_SpawnOnPerimeter ==
    op.name = "rock_attack" =>
        LET x == NewRock.pos[1]
            y == NewRock.pos[2]
            w == gameboard_width * Unit
            h == gameboard_height * Unit
            m == IF gameboard_width < gameboard_height
                 THEN gameboard_width ELSE gameboard_height
        IN  /\ \/ (2 * x = -w \/ 2 * x = w) /\ -h <= 2 * y /\ 2 * y <= h
               \/ (2 * y = -h \/ 2 * y = h) /\ -w <= 2 * x /\ 2 * x <= w
            /\ ~(SumSq(<<2 * x, 2 * y>>)[1] < m * m)

\* C9 witness: a rock spawned on the left edge of an arena of odd width
C9_Witness ==
    /\ op.name = "rock_attack"
    /\ gameboard_width = 3
    /\ op.draw >= 2 * gameboard_width + gameboard_height
    /\ 2 * NewRock.pos[1] = -(gameboard_width * Unit)

\* C10: the direction of a rock created by rock_attack never points out of
\* the rectangle across its spawn edge: top dy >= 0; right dx <= 0 and
\* dy >= 0; bottom dy <= 0; left dx >= 0.
C10_SpawnHeadsInward ==
    op.name = "rock_attack" =>
        LET dx == NewRock.direction[1]
            dy == NewRock.direction[2]
            r  == op.draw
            w  == gameboard_width
            h  == gameboard_height
        IN  /\ r < w => dy >= 0
            /\ (w <= r /\ r < w + h) => (dx <= 0 /\ dy >= 0)
            /\ (w + h <= r /\ r < 2 * w + h) => dy <= 0
            /\ 2 * w + h <= r => dx >= 0

\* C10 witness: a right-edge spawn whose drawn angle has negative cosine and
\* negative sine
C10_Witness ==
    /\ op.name = "rock_attack"
    /\ op.angle = 200
    /\ gameboard_width <= op.draw
    /\ op.draw < gameboard_width + gameboard_height
    /\ NewRock.direction = <<-940, 342>>

\* C11: rock_attack maps its draw r in [0, 2(w+h)) onto four contiguous
\* segments of lengths w, h, w, h (top, right, bottom, left); the coordinate
\* orthogonal to the edge is fixed to the edge, the coordinate along it is the
\* offset of r within its segment, and both are then shifted by (-w/2, -h/2).
\* The call appends exactly this one rock and changes nothing else.
\* (coordinates doubled so that odd extents stay whole)
C11_SpawnSegments ==
    [][op'.name = "rock_attack" =>
        LET w == gameboard_width
            h == gameboard_height
            r == op'.draw
            seg == CHOOSE k \in 1..4 :
                       \/ k = 1 /\ 0 <= r /\ r < w
                       \/ k = 2 /\ w <= r /\ r < w + h
                       \/ k = 3 /\ w + h <= r /\ r < w + h + w
                       \/ k = 4 /\ w + h + w <= r /\ r < w + h + w + h
            start == <<0, w, w + h, w + h + w>>[seg]
            off == r - start
            twice == <<  <<2 * off - w, -h>>, <<w, 2 * off - h>>,
                         <<2 * off - w, h>>,  <<-w, 2 * off - h>>  >>[seg]
        IN  /\ Len(rocks') = Len(rocks) + 1
            /\ SubSeq(rocks', 1, Len(rocks)) = rocks
            /\ 2 * rocks'[Len(rocks')].pos[1] = twice[1] * Unit
            /\ 2 * rocks'[Len(rocks')].pos[2] = twice[2] * Unit
            /\ UNCHANGED <<bullets, gameboard_width, gameboard_height, err>>
    ]_vars

\* C11 witness: in an arena of width 10 and height 6 that holds a bullet,
\* the draw 5 with angle pi/2 gave a rock at (0, -3) heading (0, 1)
C11_Witness ==
    /\ op.name = "rock_attack"
    /\ gameboard_width = 10
    /\ gameboard_height = 6
    /\ op.draw = 5
    /\ op.angle = 90
    /\ bullets # <<>>
    /\ NewRock.pos = <<0, -3 * Unit>>
    /\ NewRock.direction = <<0, 1000>>

\* C12: check_kill is idempotent: after a check_kill pass no bullet and rock
\* that remain in the arena are within the kill threshold of each other, so
\* a second pass right after it removes nothing.
C12_KillPassLeavesNoPair ==
    op.name = "check_kill" =>
        /\ \A i \in DOMAIN bullets : \A j \in DOMAIN rocks :
              ~distance_to_rock_lt(bullets[i], rocks[j].pos)
        /\ check_kill(bullets, rocks).bullets = bullets
        /\ check_kill(bullets, rocks).rocks = rocks

\* C13: an arena with zero or negative width or height is never created
\* (the constructor signals the violation), so no operation such as
\* rock_attack ever runs on non-positive dimensions.
C13_ExtentsPositive ==
    /\ gameboard_width > 0
    /\ gameboard_height > 0

\* the entity e after one advance: position + direction * speed in each
\* component, direction and speed as they were
Advanced(e) ==
    [speed     |-> e.speed,
     direction |-> e.direction,
     pos       |-> <<e.pos[1] + e.speed * e.direction[1],
                     e.pos[2] + e.speed * e.direction[2]>>]

\* new holds, in their order, entities of old: each one unchanged, or, if
\* moved, advanced exactly once
SurvivorsOf(new, old, moved) ==
    \E f \in [DOMAIN new -> DOMAIN old] :
        /\ \A k \in DOMAIN new : \A l \in DOMAIN new : k < l => f[k] < f[l]
        /\ \A k \in DOMAIN new :
              new[k] = IF moved THEN Advanced(old[f[k]]) ELSE old[f[k]]

\* C14: advancing an entity sets position_new = position_old +
\* direction * speed per component and leaves its direction and speed
\* unchanged; over any operation an entity's direction and speed and the
\* arena's width and height never change, and no entity's position changes
\* except by its own advance.
C14_OnlyOwnAdvanceMoves ==
    [][/\ gameboard_width' = gameboard_width
       /\ gameboard_height' = gameboard_height
       /\ op'.name = "shoot" =>
              /\ rocks' = rocks
              /\ SubSeq(bullets', 1, Len(bullets)) = bullets
       /\ op'.name = "rock_attack" =>
              /\ bullets' = bullets
              /\ SubSeq(rocks', 1, Len(rocks)) = rocks
       /\ op'.name \in {"check_death", "check_kill"} =>
              /\ SurvivorsOf(bullets', bullets, FALSE)
              /\ SurvivorsOf(rocks', rocks, FALSE)
       /\ op'.name = "update_gameboard" =>
              /\ SurvivorsOf(bullets', bullets, err' = "none")
              /\ SurvivorsOf(rocks', rocks, err' = "none")
    ]_vars

\* C14 witness: an update_gameboard call has advanced two bullets that head
\* in different directions, each along its own direction
C14_Witness ==
    /\ op.name = "update_gameboard"
    /\ err = "none"
    /\ Len(bullets) = 2
    /\ bullets[1].direction = <<0, -1000>>
    /\ bullets[2].direction = <<1000, 0>>
    /\ bullets[1].pos = <<0, -2 * Unit>>
    /\ bullets[2].pos = <<Unit, 0>>

\* C15: check_death is a pure query: a call leaves the bullet list, the rock
\* list, every entity's position and direction, and the arena's width and
\* height exactly as they were.
C15_CheckDeathChangesNothing ==
    [][op'.name = "check_death" =>
          UNCHANGED <<bullets, rocks, gameboard_width, gameboard_height>>
    ]_vars

\* C15 witness: check_death has answered True on an arena that holds a
\* bullet and two rocks, the second of them the one within the death radius
C15_Witness ==
    /\ op.name = "check_death"
    /\ op.ret
    /\ bullets # <<>>
    /\ Len(rocks) = 2
    /\ ~NormLess(rocks[1].pos, DeathThreshold)
    /\ NormLess(rocks[2].pos, DeathThreshold)

\* the oldest rock of the arena leaves the list in this step
OldestRockRemoved ==
    /\ rocks # <<>>
    /\ \/ rocks' = <<>>
       \/ /\ rocks'[1] # rocks[1]
          /\ rocks'[1] # Advanced(rocks[1])

\* C16: as long as update_gameboard keeps being called (no call has
\* raised), no rock stays in the arena forever: again and again the arena
\* holds no rock or its oldest rock is removed, by collision or by culling
\* beyond 2 * width; so every rock rock_attack created is eventually removed.
C16_NoRockStaysForever ==
    [](err = "none") =>
        ([]<>(rocks = <<>>) \/ []<><<OldestRockRemoved>>_vars)

\* C16 witness: one update_gameboard call has culled the two rocks of the
\* arena, both beyond 2 * width
C16_Witness ==
    /\ op.name = "update_gameboard"
    /\ op.culled_r = 2
    /\ op.killed = 0
    /\ rocks = <<>>

\* C17: a check_kill pass removes only members of a within-threshold pair:
\* every bullet it removes is within 20 of a rock removed in the same pass
\* and every rock it removes is within 20 of a bullet removed in the same
\* pass; no bystander is removed because indices shifted after a removal.
C17_OnlyPairedRemoved ==
    [][op'.name = "check_kill" =>
          LET log  == check_kill(bullets, rocks).log
              pops == {n \in DOMAIN log : log[n].kind = "pop"}
          IN  \A n \in pops :
                 /\ \E m \in pops :
                       distance_to_rock_lt(bullets[log[n].b],
                                           rocks[log[m].r].pos)
                 /\ \E m \in pops :
                       distance_to_rock_lt(bullets[log[m].b],
                                           rocks[log[n].r].pos)]_vars

\* C18: a bullet has a bounded lifetime: it starts at the origin and moves
\* one unit per update_gameboard call along its unit direction, and is
\* removed after at most width + 2 calls; so at every state every bullet has
\* been advanced k <= width + 1 times and lies within width + 1 of the
\* origin.
C18_BulletLifetimeBounded ==
    \A i \in DOMAIN bullets :
        /\ \E k \in 0..(gameboard_width + 1) :
              bullets[i].pos =
                  <<k * bullets[i].speed * bullets[i].direction[1],
                    k * bullets[i].speed * bullets[i].direction[2]>>
        /\ ~NormGreater(bullets[i].pos, gameboard_width + 1)

\* C18 witness: after width + 1 update_gameboard calls the older of two
\* bullets is at distance width + 1, and the next call removes it
C18_Witness ==
    /\ op.name = "update_gameboard"
    /\ rocks = <<>>
    /\ Len(bullets) = 2
    /\ NormGreater(bullets[1].pos, gameboard_width)
    /\ bullets[1].pos =
           <<(gameboard_width + 1) * bullets[1].speed * bullets[1].direction[1],
             (gameboard_width + 1) * bullets[1].speed * bullets[1].direction[2]>>
    /\ Len(update_gameboard(bullets, rocks, gameboard_width).bullets) = 1

\* C19: a shoot key press is safe in every state of the window: before the
\* first session is started, while a session runs, and after game over;
\* keyPressEvent never calls shoot on an arena that does not exist and
\* completes without error.
C19_SpaceKeySafe ==
    op.name = "key_space" => (has_gameboard /\ err = "none")

====
